---- MODULE Spec2Model ----
(***************************************************************************)
(* Model of the car cost comparison scripts of edeCarAnalytics:            *)
(*   car_analyze_2.py          heatmap with click-to-drill-down            *)
(*   car_analyze_altair.py     Streamlit dashboard, Altair charts          *)
(*   car_analyze_streamlit.py  Streamlit dashboard, matplotlib charts      *)
(*                                                                         *)
(* Number representation.  Widget values (sliders, number inputs) are      *)
(* Python ints and are modelled as integers (kr).  Values that come out of *)
(* np.linspace are float64; they are modelled as exact fixed-point numbers *)
(* with denominator Scale, chosen so that every grid point of every        *)
(* admissible granularity is representable.  Names ending in a grid value  *)
(* (jag_repairs, tesla_depreciations, matrix, analysis) hold kr * Scale.   *)
(* Binary floating-point rounding error (of the order 1e-11 kr) is not     *)
(* modelled.                                                               *)
(***************************************************************************)
EXTENDS Integers, Sequences, FiniteSets, TLC

\* ------------------------------------------------------------------ bounds

\* Number of widget interactions / click events followed in one session.
MaxEvents == 2

\* ------------------------------------------------------- program constants

GranularityMin == 3
GranularityMax == 9
GranularityDefault == 6

JagSliderMin == 10000
JagSliderMax == 100000
JagSliderStep == 5000
JagDefaultMin == 20000
JagDefaultMax == 80000

TeslaSliderMin == 50000
TeslaSliderMax == 300000
TeslaSliderStep == 10000
TeslaDefaultMin == 80000
TeslaDefaultMax == 220000

\* Years of repairs charged to the Jaguar (the literal 3 in `3 * jag_rep`).
JaguarRepairYears == 3

Scripts == {"car_analyze_2", "car_analyze_altair", "car_analyze_streamlit"}
Dashboards == {"car_analyze_altair", "car_analyze_streamlit"}

\* --------------------------------------------------------------- arithmetic

RECURSIVE Gcd(_, _)
Gcd(a, b) == IF b = 0 THEN a ELSE Gcd(b, a % b)

Lcm(a, b) == (a * b) \div Gcd(a, b)

RECURSIVE LcmUpTo(_)
LcmUpTo(n) == IF n <= 1 THEN 1 ELSE Lcm(LcmUpTo(n - 1), n)

\* Denominator of the fixed-point representation of float64 values: a common
\* multiple of every linspace divisor (granularity - 1).
Scale == LcmUpTo(GranularityMax - 1)

\* int -> float64 conversion (exact).
Fx(n) == n * Scale

Abs(x) == IF x < 0 THEN -x ELSE x

\* n / d rounded to the nearest integer, ties to the even integer (d > 0).
\* This is IEEE round-half-even as used by np.round / rint and by the
\* correctly rounded "%.1f" formatting.
RoundHalfEvenDiv(n, d) ==
    LET q == n \div d
        r == n % d
    IN  IF 2 * r < d THEN q
        ELSE IF 2 * r > d THEN q + 1
        ELSE IF q % 2 = 0 THEN q ELSE q + 1

\* int(x) of a float64: truncation toward zero.
IntTrunc(x) == IF x >= 0 THEN x \div Scale ELSE -((-x) \div Scale)

\* Mutant of RoundTo10: ties rounded up, as int(x / 10 + 0.5) * 10 does.
RoundTo10HalfUp(x) == ((2 * x + 10 * Scale) \div (20 * Scale)) * 10 * Scale

\* round(x, -1) of a float64 x: x / 10 rounded half-even, times 10.
RoundTo10(x) == RoundHalfEvenDiv(x, 10 * Scale) * 10 * Scale

\* Mutant of Linspace: the end point excluded (endpoint=False), so that the step
\* is (stop - start) / num.
LinspaceNoEndpoint(start, stop, num) ==
    LET step == IF num > 0 THEN (Fx(stop) - Fx(start)) \div num ELSE 0
    IN  [k \in 1..num |-> Fx(start) + (k - 1) * step]

\* np.linspace(start, stop, num) for int start and stop:
\* step = (stop - start) / (num - 1); y[k] = start + k * step; and, when
\* num > 1, y[-1] = stop.  For num = 1 the result is [start].
Linspace(start, stop, num) ==
    LET div == num - 1
        step == IF div > 0 THEN (Fx(stop) - Fx(start)) \div div ELSE 0
    IN  [k \in 1..num |->
            IF num > 1 /\ k = num THEN Fx(stop) ELSE Fx(start) + (k - 1) * step]

SumSeq(s) ==
    LET RECURSIVE Go(_)
        Go(k) == IF k = 0 THEN 0 ELSE Go(k - 1) + s[k]
    IN  Go(Len(s))

\* ------------------------------------------------------------ fixed costs

FixedCostKeys ==
    {"jag_purchase", "jag_depreciation", "jag_interest", "jag_insurance",
     "jag_charging", "tesla_purchase", "tesla_insurance", "tesla_charging",
     "tesla_refinancing", "tesla_repairs"}

\* Default values of the dashboards' number inputs.
DashboardDefaults ==
    [jag_purchase |-> 700000, jag_depreciation |-> 70000, jag_interest |-> 33000,
     jag_insurance |-> 120000, jag_charging |-> 8000,
     tesla_purchase |-> 700000, tesla_insurance |-> 60000, tesla_charging |-> 6000,
     tesla_refinancing |-> 2150, tesla_repairs |-> 15000]

\* Step of the +/- buttons of each number input.
InputStep ==
    [jag_purchase |-> 50000, jag_depreciation |-> 5000, jag_interest |-> 1000,
     jag_insurance |-> 1000, jag_charging |-> 1000,
     tesla_purchase |-> 50000, tesla_insurance |-> 1000, tesla_charging |-> 1000,
     tesla_refinancing |-> 100, tesla_repairs |-> 1000]

\* The literals of car_analyze_2.py (it has no purchase price).
ClickConstants ==
    [jag_purchase |-> 0, jag_depreciation |-> 100000, jag_interest |-> 33000,
     jag_insurance |-> 36000, jag_charging |-> 8000,
     tesla_purchase |-> 0, tesla_insurance |-> 30000, tesla_charging |-> 6000,
     tesla_refinancing |-> 2150, tesla_repairs |-> 15000]

\* Mutant of JaguarFixed: the purchase price counted among the fixed costs.
JaguarFixedWithPurchase(c) ==
    c.jag_purchase + c.jag_depreciation + c.jag_interest + c.jag_insurance
    + c.jag_charging

\* jaguar_fixed / tesla_fixed: the purchase price is not part of either.
JaguarFixed(c) == c.jag_depreciation + c.jag_interest + c.jag_insurance + c.jag_charging

TeslaFixed(c) == c.tesla_insurance + c.tesla_charging + c.tesla_refinancing + c.tesla_repairs

\* ------------------------------------------------------------------ matrix

\* Mutant of CellValue: the operands of the subtraction exchanged.
CellValueRowMinusColumn(rowFixed, rowMult, row, colFixed, colMult, col, rounds) ==
    LET row_total == Fx(rowFixed) + rowMult * row
        col_total == Fx(colFixed) + colMult * col
        diff == row_total - col_total
    IN  IF rounds THEN RoundTo10(diff) ELSE diff

\* The cell the loop body computes: the column vehicle's total minus the row
\* vehicle's total, rounded to the nearest 10 where the script rounds.
CellValue(rowFixed, rowMult, row, colFixed, colMult, col, rounds) ==
    LET row_total == Fx(rowFixed) + rowMult * row
        col_total == Fx(colFixed) + colMult * col
        diff == col_total - row_total
    IN  IF rounds THEN RoundTo10(diff) ELSE diff

\* Mutant of FillMatrix: the inner loop stops one column short.
FillMatrixLastColumnSkipped(rowFixed, rowMult, rows, colFixed, colMult, cols, n, rounds) ==
    [i \in 1..n |-> [j \in 1..n |->
        IF i \in 1..Len(rows) /\ j \in 1..(Len(cols) - 1)
        THEN CellValue(rowFixed, rowMult, rows[i], colFixed, colMult, cols[j], rounds)
        ELSE 0]]

\* np.zeros((n, n)) overwritten by the nested loops over enumerate(rows) and
\* enumerate(cols).
FillMatrix(rowFixed, rowMult, rows, colFixed, colMult, cols, n, rounds) ==
    [i \in 1..n |-> [j \in 1..n |->
        IF i \in 1..Len(rows) /\ j \in 1..Len(cols)
        THEN CellValue(rowFixed, rowMult, rows[i], colFixed, colMult, cols[j], rounds)
        ELSE 0]]

\* Does the script round the cells to the nearest 10?
RoundsCells(s) == s \in Dashboards

\* matrix[i, j] = jaguar_total - tesla_total with tesla_total = tesla_fixed +
\* tesla_dep (rows) and jaguar_total = jaguar_fixed + 3 * jag_rep (columns).
BuildMatrix(s, c, tds, jrs, g) ==
    FillMatrix(TeslaFixed(c), 1, tds, JaguarFixed(c), JaguarRepairYears, jrs, g,
               RoundsCells(s))

\* The winner label attached to a heatmap cell.
\* car_analyze_2: "Jaguar cheaper" if diff < 0 else "Tesla cheaper";
\* car_analyze_altair: 'Tesla cheaper' if matrix[i, j] > 0 else 'Jaguar cheaper';
\* car_analyze_streamlit attaches no label.
CellWinner(s, cell) ==
    IF s = "car_analyze_2"
    THEN (IF cell < 0 THEN "Jaguar" ELSE "Tesla")
    ELSE IF s = "car_analyze_altair"
    THEN (IF cell > 0 THEN "Tesla" ELSE "Jaguar")
    ELSE "none"

\* ------------------------------------------- detailed analysis (dashboards)

\* Mutant of DetailTeslaTotal: the purchase price counted in the total.
DetailTeslaTotalWithPurchase(c, sel_t) == c.tesla_purchase + TeslaFixed(c) + sel_t

\* tesla_total = tesla_fixed + selected_tesla_dep
DetailTeslaTotal(c, sel_t) == TeslaFixed(c) + sel_t

\* Mutant of DetailJaguarTotal: the annual repairs counted for one year only.
DetailJaguarTotalOneYear(c, sel_j) == JaguarFixed(c) + sel_j

\* jaguar_total = jaguar_fixed + (3 * selected_jaguar_rep)
DetailJaguarTotal(c, sel_j) == JaguarFixed(c) + (JaguarRepairYears * sel_j)

\* winner = "Tesla Model Y is cheaper" if difference > 0 else "Jaguar I-Pace is cheaper"
Winner(diff) == IF diff > 0 THEN "Tesla" ELSE "Jaguar"

\* Mutant of TeslaCosts: the 'Repairs' row left out of the breakdown.
TeslaCostsWithoutRepairs(c, sel_t) ==
    <<sel_t, c.tesla_insurance, c.tesla_charging, c.tesla_refinancing>>

\* The categories of a vehicle's breakdown after 'Purchase Price', in order.
TeslaCosts(c, sel_t) ==
    <<sel_t, c.tesla_insurance, c.tesla_charging, c.tesla_refinancing, c.tesla_repairs>>

JaguarCosts(c, sel_j) ==
    <<c.jag_depreciation, c.jag_interest, c.jag_insurance, c.jag_charging,
      JaguarRepairYears * sel_j>>

\* x / total * 100 as an exact fraction.
Percentage(x, total) == [num |-> 100 * x, den |-> total]

\* f"{p:.1f}": the percentage rounded to one decimal, in tenths of a percent.
Format1f(p) ==
    IF p.den > 0 THEN RoundHalfEvenDiv(10 * p.num, p.den)
    ELSE RoundHalfEvenDiv(-10 * p.num, -p.den)

NotRendered == [rendered |-> FALSE, cost |-> <<>>, percentage |-> <<>>]

\* The 'Percentage' column of a breakdown table between "N/A" and "100%".
BreakdownTable(cost, total) ==
    [rendered |-> TRUE, cost |-> cost,
     percentage |-> [k \in 1..Len(cost) |-> Format1f(Percentage(cost[k], total))]]

\* car_analyze_altair: the pie's data frame holds the unformatted percentages of
\* the display total.  car_analyze_streamlit: ax.pie gets the costs only.
PieData(s, cost, display_total) ==
    [rendered |-> TRUE, cost |-> cost,
     percentage |-> IF s = "car_analyze_altair"
                    THEN [k \in 1..Len(cost) |-> Percentage(cost[k], display_total)]
                    ELSE <<>>]

\* The exception a breakdown table's percentages raise: int / int with a zero
\* divisor is Python's ZeroDivisionError.
TableError(total) == IF total = 0 THEN "ZeroDivisionError" ELSE "none"

\* The exception a pie raises.  car_analyze_altair divides by the display total;
\* car_analyze_streamlit calls matplotlib's ax.pie, which raises ValueError for
\* a negative wedge size.
PieError(s, cost, display_total) ==
    IF s = "car_analyze_altair"
    THEN (IF display_total = 0 THEN "ZeroDivisionError" ELSE "none")
    ELSE (IF \E k \in 1..Len(cost) : cost[k] < 0 THEN "ValueError" ELSE "none")

\* One run of a dashboard script, top to bottom, with the widget values given.
\* An exception ends the run: what follows it is not computed or rendered.
\* stage counts the blocks of the breakdown column that completed: Tesla table,
\* Jaguar table, Tesla pie, Jaguar pie.
RunDashboard(s, g, jmin, jmax, tmin, tmax, c, sel_t, sel_j) ==
    LET jrs == Linspace(jmin, jmax, g)
        tds == Linspace(tmin, tmax, g)
        m == BuildMatrix(s, c, tds, jrs, g)
        tt == DetailTeslaTotal(c, sel_t)
        jt == DetailJaguarTotal(c, sel_j)
        tcost == TeslaCosts(c, sel_t)
        jcost == JaguarCosts(c, sel_j)
        tdisp == SumSeq(tcost)
        jdisp == SumSeq(jcost)
        errs == <<TableError(tt), TableError(jt), PieError(s, tcost, tdisp),
                  PieError(s, jcost, jdisp)>>
        stage == IF errs[1] # "none" THEN 0
                 ELSE IF errs[2] # "none" THEN 1
                 ELSE IF errs[3] # "none" THEN 2
                 ELSE IF errs[4] # "none" THEN 3
                 ELSE 4
    IN  [jag_repairs |-> jrs,
         tesla_depreciations |-> tds,
         matrix |-> m,
         tesla_total |-> tt,
         jaguar_total |-> jt,
         difference |-> jt - tt,
         winner |-> Winner(jt - tt),
         tesla_breakdown |-> IF stage >= 1 THEN BreakdownTable(tcost, tt) ELSE NotRendered,
         jaguar_breakdown |-> IF stage >= 2 THEN BreakdownTable(jcost, jt) ELSE NotRendered,
         tesla_display_total |-> IF stage >= 2 THEN tdisp ELSE 0,
         tesla_pie |-> IF stage >= 3 THEN PieData(s, tcost, tdisp) ELSE NotRendered,
         jaguar_display_total |-> IF stage >= 3 THEN jdisp ELSE 0,
         jaguar_pie |-> IF stage >= 4 THEN PieData(s, jcost, jdisp) ELSE NotRendered,
         error |-> IF stage = 4 THEN "none" ELSE errs[stage + 1]]

\* value= of the scenario number inputs: the middle grid point, truncated.
DefaultSelected(axis) == IntTrunc(axis[(Len(axis) \div 2) + 1])

\* The arguments of a scenario number input: <<min_value, max_value, value>>.
SelectionArgs(lo, hi, g) == <<lo, hi, DefaultSelected(Linspace(lo, hi, g))>>

\* st.number_input without a key: the entered value is kept while the widget's
\* arguments are the same, and is the default again once they change.
NumberInputValue(old_value, old_args, new_args) ==
    IF new_args = old_args THEN old_value ELSE new_args[3]

\* ----------------------------------------- detailed analysis (car_analyze_2)

NoAnalysis ==
    [open |-> FALSE, tesla_depreciation |-> 0, jaguar_repair |-> 0, tesla_total |-> 0,
     jaguar_total |-> 0, difference |-> 0, winner |-> "none"]

\* show_detailed_analysis(tesla_depreciation, jaguar_repair): the figure it opens.
\* Both arguments are float64 grid values.
ShowDetailedAnalysis(c, tesla_depreciation, jaguar_repair) ==
    LET tt == Fx(TeslaFixed(c)) + tesla_depreciation
        jt == Fx(JaguarFixed(c)) + (JaguarRepairYears * jaguar_repair)
    IN  [open |-> TRUE, tesla_depreciation |-> tesla_depreciation,
         jaguar_repair |-> jaguar_repair, tesla_total |-> tt, jaguar_total |-> jt,
         difference |-> jt - tt, winner |-> Winner(jt - tt)]

\* int(event.ydata) for a coordinate given in half cells: truncation toward zero.
IntOfHalves(h) == IF h >= 0 THEN h \div 2 ELSE -((-h) \div 2)

\* No click handled yet.
NoClick == [inaxes |-> FALSE, y |-> 0, x |-> 0]

\* What on_click holds after its first two lines: the outcome of
\* event.inaxes == ax and, inside the axes, y, x = int(event.ydata),
\* int(event.xdata).  Outside the axes y and x are never assigned.
ClickLocals(inaxes, ydata, xdata) ==
    IF inaxes
    THEN [inaxes |-> TRUE, y |-> IntOfHalves(ydata), x |-> IntOfHalves(xdata)]
    ELSE NoClick

\* car_analyze_2 builds its heatmap once, from the literals at its top.
RunClickScript(s, g, jmin, jmax, tmin, tmax, c) ==
    LET jrs == Linspace(jmin, jmax, g)
        tds == Linspace(tmin, tmax, g)
        m == BuildMatrix(s, c, tds, jrs, g)
    IN  [jag_repairs |-> jrs,
         tesla_depreciations |-> tds,
         matrix |-> m,
         tesla_total |-> 0, jaguar_total |-> 0, difference |-> 0, winner |-> "none",
         tesla_breakdown |-> NotRendered, jaguar_breakdown |-> NotRendered,
         tesla_display_total |-> 0, tesla_pie |-> NotRendered,
         jaguar_display_total |-> 0, jaguar_pie |-> NotRendered,
         error |-> "none"]

\* -------------------------------------------------------------------- state

VARIABLES
    script,                 \* which of the three scripts runs
    events,                 \* widget interactions / clicks so far
    granularity, jag_min, jag_max, tesla_min, tesla_max,
    costs,                  \* the fixed-cost inputs, by widget key
    selected_tesla_dep, selected_jaguar_rep,
    jag_repairs, tesla_depreciations, matrix,
    tesla_total, jaguar_total, difference, winner,
    tesla_breakdown, jaguar_breakdown,
    tesla_display_total, jaguar_display_total, tesla_pie, jaguar_pie,
    error,                  \* the exception that ended the last run, or "none"
    analysis,               \* car_analyze_2: the detailed analysis last opened
    click                   \* car_analyze_2: inaxes test and locals y, x of the
                            \* last on_click call

params == <<granularity, jag_min, jag_max, tesla_min, tesla_max, costs>>

selection == <<selected_tesla_dep, selected_jaguar_rep>>

outputs ==
    <<jag_repairs, tesla_depreciations, matrix, tesla_total, jaguar_total,
      difference, winner, tesla_breakdown, jaguar_breakdown,
      tesla_display_total, jaguar_display_total, tesla_pie, jaguar_pie, error>>

vars == <<script, events, params, selection, outputs, analysis, click>>

\* The initial page shows what the first run r computed.
ShownInit(r) ==
    /\ jag_repairs = r.jag_repairs
    /\ tesla_depreciations = r.tesla_depreciations
    /\ matrix = r.matrix
    /\ tesla_total = r.tesla_total
    /\ jaguar_total = r.jaguar_total
    /\ difference = r.difference
    /\ winner = r.winner
    /\ tesla_breakdown = r.tesla_breakdown
    /\ jaguar_breakdown = r.jaguar_breakdown
    /\ tesla_display_total = r.tesla_display_total
    /\ jaguar_display_total = r.jaguar_display_total
    /\ tesla_pie = r.tesla_pie
    /\ jaguar_pie = r.jaguar_pie
    /\ error = r.error

\* Mutant of Shown: the matrix is kept from the run before (a cached heatmap)
\* while everything else is shown from the run r.
ShownWithCachedMatrix(r) ==
    /\ jag_repairs' = r.jag_repairs
    /\ tesla_depreciations' = r.tesla_depreciations
    /\ matrix' = IF Len(matrix) = Len(r.matrix) THEN matrix ELSE r.matrix
    /\ tesla_total' = r.tesla_total
    /\ jaguar_total' = r.jaguar_total
    /\ difference' = r.difference
    /\ winner' = r.winner
    /\ tesla_breakdown' = r.tesla_breakdown
    /\ jaguar_breakdown' = r.jaguar_breakdown
    /\ tesla_display_total' = r.tesla_display_total
    /\ jaguar_display_total' = r.jaguar_display_total
    /\ tesla_pie' = r.tesla_pie
    /\ jaguar_pie' = r.jaguar_pie
    /\ error' = r.error

\* The page after a rerun shows what the run r computed, and nothing else.
Shown(r) ==
    /\ jag_repairs' = r.jag_repairs
    /\ tesla_depreciations' = r.tesla_depreciations
    /\ matrix' = r.matrix
    /\ tesla_total' = r.tesla_total
    /\ jaguar_total' = r.jaguar_total
    /\ difference' = r.difference
    /\ winner' = r.winner
    /\ tesla_breakdown' = r.tesla_breakdown
    /\ jaguar_breakdown' = r.jaguar_breakdown
    /\ tesla_display_total' = r.tesla_display_total
    /\ jaguar_display_total' = r.jaguar_display_total
    /\ tesla_pie' = r.tesla_pie
    /\ jaguar_pie' = r.jaguar_pie
    /\ error' = r.error

Init ==
    /\ script \in Scripts
    /\ events = 0
    /\ granularity = GranularityDefault
    /\ jag_min = JagDefaultMin
    /\ jag_max = JagDefaultMax
    /\ tesla_min = TeslaDefaultMin
    /\ tesla_max = TeslaDefaultMax
    /\ costs = IF script \in Dashboards THEN DashboardDefaults ELSE ClickConstants
    /\ selected_tesla_dep =
         IF script \in Dashboards
         THEN SelectionArgs(tesla_min, tesla_max, granularity)[3] ELSE 0
    /\ selected_jaguar_rep =
         IF script \in Dashboards
         THEN SelectionArgs(jag_min, jag_max, granularity)[3] ELSE 0
    /\ ShownInit(IF script \in Dashboards
                 THEN RunDashboard(script, granularity, jag_min, jag_max, tesla_min,
                                   tesla_max, costs, selected_tesla_dep,
                                   selected_jaguar_rep)
                 ELSE RunClickScript(script, granularity, jag_min, jag_max, tesla_min,
                                     tesla_max, costs))
    /\ analysis = NoAnalysis
    /\ click = NoClick

\* ------------------------------------------------------------ user choices

SelectedTeslaStep == 10000
SelectedJaguarStep == 5000

\* A range slider after one of its handles is moved: to the end of the track,
\* onto the other handle, or one step towards the other handle.  The slider
\* returns its two values in order, so lo <= hi always.
RangeMoves(lo, hi, smin, smax, step) ==
    ({<<v, hi>> : v \in {w \in {smin, hi, lo + step} : smin <= w /\ w <= hi}}
     \cup
     {<<lo, v>> : v \in {w \in {smax, lo, hi - step} : lo <= w /\ w <= smax}})
    \ {<<lo, hi>>}

\* Mutant of GranularityMoves: the track of the slider starts at 1.
GranularityMovesFromOne(g) ==
    {v \in {1, GranularityMax, g - 1, g + 1} : 1 <= v /\ v <= GranularityMax} \ {g}

\* The granularity slider after its handle is moved: to an end of the track or
\* one step either way.
GranularityMoves(g) ==
    {v \in {GranularityMin, GranularityMax, g - 1, g + 1} :
        GranularityMin <= v /\ v <= GranularityMax} \ {g}

\* A scenario number input after an entry: a bound, or one step either way.
SelectionMoves(cur, lo, hi, step) ==
    {v \in {lo, hi, cur - step, cur + step} : lo <= v /\ v <= hi} \ {cur}

\* The inputs on which typed amounts are followed, one per vehicle.
TypedKeys == {"tesla_insurance", "jag_insurance"}

\* Leads of the Jaguar's total over the Tesla's (kr) that a typed amount sets
\* up: a tie, and a lead within half the rounding step of the matrix.
TypedLeads == {0, (10 \div 2) - 1}

\* A fixed-cost number input after an entry.  The input has no min_value or
\* max_value, so any integer can be typed.  Followed here are the +/- buttons
\* of every input and, on the inputs of TypedKeys, a typed negative amount and
\* the typed amount that cancels the rest of the vehicle's total; on the
\* Tesla's insurance also the typed amounts that bring the difference shown
\* down to one of TypedLeads.
FixedCostMoves(k) ==
    {costs[k] - InputStep[k], costs[k] + InputStep[k]}
    \cup (IF k \in TypedKeys
          THEN {-InputStep[k],
                costs[k] - (IF k = "tesla_insurance" THEN tesla_total ELSE jaguar_total)}
              \ {costs[k]}
          ELSE {})
    \cup (IF k = "tesla_insurance"
          THEN {costs[k] + (difference - d) : d \in TypedLeads} \ {costs[k]}
          ELSE {})

\* Click coordinates (event.ydata, event.xdata) in half cells.  The heatmap's
\* cells span 0..granularity; panning or zooming can put other coordinates
\* inside the axes.
ClickCoords == (-2)..(2 * granularity + 1)

\* ------------------------------------------------------------------ actions

\* A widget changed: Streamlit runs the script again from the top.
Rerun(g, jmin, jmax, tmin, tmax, c, sel_t, sel_j) ==
    /\ script \in Dashboards
    /\ events < MaxEvents
    /\ events' = events + 1
    /\ granularity' = g
    /\ jag_min' = jmin
    /\ jag_max' = jmax
    /\ tesla_min' = tmin
    /\ tesla_max' = tmax
    /\ costs' = c
    /\ selected_tesla_dep' = sel_t
    /\ selected_jaguar_rep' = sel_j
    /\ Shown(RunDashboard(script, g, jmin, jmax, tmin, tmax, c, sel_t, sel_j))
    /\ UNCHANGED <<script, analysis, click>>

SetGranularity(g) ==
    Rerun(g, jag_min, jag_max, tesla_min, tesla_max, costs,
          NumberInputValue(selected_tesla_dep,
                           SelectionArgs(tesla_min, tesla_max, granularity),
                           SelectionArgs(tesla_min, tesla_max, g)),
          NumberInputValue(selected_jaguar_rep,
                           SelectionArgs(jag_min, jag_max, granularity),
                           SelectionArgs(jag_min, jag_max, g)))

SetJagRange(lo, hi) ==
    Rerun(granularity, lo, hi, tesla_min, tesla_max, costs, selected_tesla_dep,
          NumberInputValue(selected_jaguar_rep,
                           SelectionArgs(jag_min, jag_max, granularity),
                           SelectionArgs(lo, hi, granularity)))

SetTeslaRange(lo, hi) ==
    Rerun(granularity, jag_min, jag_max, lo, hi, costs,
          NumberInputValue(selected_tesla_dep,
                           SelectionArgs(tesla_min, tesla_max, granularity),
                           SelectionArgs(lo, hi, granularity)),
          selected_jaguar_rep)

SetFixedCost(k, v) ==
    Rerun(granularity, jag_min, jag_max, tesla_min, tesla_max,
          [costs EXCEPT ![k] = v], selected_tesla_dep, selected_jaguar_rep)

SelectTeslaDep(v) ==
    Rerun(granularity, jag_min, jag_max, tesla_min, tesla_max, costs, v,
          selected_jaguar_rep)

SelectJaguarRep(v) ==
    Rerun(granularity, jag_min, jag_max, tesla_min, tesla_max, costs,
          selected_tesla_dep, v)

\* Mutant of OnClick: the handler marks the cell it opened by overwriting it
\* in the matrix.
OnClickMarksCell(inaxes, ydata, xdata) ==
    /\ script = "car_analyze_2"
    /\ events < MaxEvents
    /\ events' = events + 1
    /\ click' = ClickLocals(inaxes, ydata, xdata)
    /\ LET y == IntOfHalves(ydata)
           x == IntOfHalves(xdata)
       IN  IF inaxes /\ 0 <= y /\ y < granularity /\ 0 <= x /\ x < granularity
           THEN /\ analysis' = ShowDetailedAnalysis(costs, tesla_depreciations[y + 1],
                                                    jag_repairs[x + 1])
                /\ matrix' = [matrix EXCEPT ![y + 1][x + 1] = 0]
           ELSE /\ analysis' = analysis
                /\ matrix' = matrix
    /\ UNCHANGED <<script, params, selection, jag_repairs, tesla_depreciations,
                   tesla_total, jaguar_total, difference, winner, tesla_breakdown,
                   jaguar_breakdown, tesla_display_total, jaguar_display_total,
                   tesla_pie, jaguar_pie, error>>

\* Mutant of OnClick: the coordinates unpacked in the wrong order,
\* x, y = int(event.ydata), int(event.xdata) in effect.
OnClickTransposed(inaxes, ydata, xdata) ==
    /\ script = "car_analyze_2"
    /\ events < MaxEvents
    /\ events' = events + 1
    /\ click' = ClickLocals(inaxes, ydata, xdata)
    /\ LET y == IntOfHalves(ydata)
           x == IntOfHalves(xdata)
       IN  IF inaxes /\ 0 <= y /\ y < granularity /\ 0 <= x /\ x < granularity
           THEN analysis' = ShowDetailedAnalysis(costs, tesla_depreciations[x + 1],
                                                 jag_repairs[y + 1])
           ELSE analysis' = analysis
    /\ UNCHANGED <<script, params, selection, outputs>>

\* Mutant of OnClick: the lower bounds of the range check left out, so that a
\* negative index reaches the arrays, where numpy counts it from the end.
OnClickNoLowerBound(inaxes, ydata, xdata) ==
    /\ script = "car_analyze_2"
    /\ events < MaxEvents
    /\ events' = events + 1
    /\ click' = ClickLocals(inaxes, ydata, xdata)
    /\ LET y == IntOfHalves(ydata)
           x == IntOfHalves(xdata)
           At(n) == IF n < 0 THEN granularity + n + 1 ELSE n + 1
       IN  IF inaxes /\ y < granularity /\ x < granularity
           THEN analysis' = ShowDetailedAnalysis(costs, tesla_depreciations[At(y)],
                                                 jag_repairs[At(x)])
           ELSE analysis' = analysis
    /\ UNCHANGED <<script, params, selection, outputs>>

\* on_click(event) of car_analyze_2.
OnClick(inaxes, ydata, xdata) ==
    /\ script = "car_analyze_2"
    /\ events < MaxEvents
    /\ events' = events + 1
    /\ click' = ClickLocals(inaxes, ydata, xdata)
    /\ LET y == IntOfHalves(ydata)
           x == IntOfHalves(xdata)
       IN  IF inaxes /\ 0 <= y /\ y < granularity /\ 0 <= x /\ x < granularity
           THEN analysis' = ShowDetailedAnalysis(costs, tesla_depreciations[y + 1],
                                                 jag_repairs[x + 1])
           ELSE analysis' = analysis
    /\ UNCHANGED <<script, params, selection, outputs>>

Next ==
    \/ \E g \in GranularityMoves(granularity) : SetGranularity(g)
    \/ \E r \in RangeMoves(jag_min, jag_max, JagSliderMin, JagSliderMax, JagSliderStep) :
          SetJagRange(r[1], r[2])
    \/ \E r \in RangeMoves(tesla_min, tesla_max, TeslaSliderMin, TeslaSliderMax,
                           TeslaSliderStep) :
          SetTeslaRange(r[1], r[2])
    \/ \E k \in FixedCostKeys : \E v \in FixedCostMoves(k) : SetFixedCost(k, v)
    \/ \E v \in SelectionMoves(selected_tesla_dep, tesla_min, tesla_max, SelectedTeslaStep) :
          SelectTeslaDep(v)
    \/ \E v \in SelectionMoves(selected_jaguar_rep, jag_min, jag_max, SelectedJaguarStep) :
          SelectJaguarRep(v)
    \/ \E inaxes \in BOOLEAN : \E ydata \in ClickCoords : \E xdata \in ClickCoords :
          OnClick(inaxes, ydata, xdata)

Spec == Init /\ [][Next]_vars

\* ------------------------------------------------- the documented scenario

\* The fixed-cost inputs of a dashboard after the amounts of the documented
\* scenario were typed into them: a Jaguar with no depreciation and insurance
\* 36000, a Tesla with insurance 30000.  The inputs have no min_value or
\* max_value, so every one of these amounts is accepted.
ScenarioCosts ==
    [jag_purchase |-> 700000, jag_depreciation |-> 0, jag_interest |-> 33000,
     jag_insurance |-> 36000, jag_charging |-> 8000,
     tesla_purchase |-> 700000, tesla_insurance |-> 30000, tesla_charging |-> 6000,
     tesla_refinancing |-> 2150, tesla_repairs |-> 15000]

\* A session that starts where the documented scenario has been entered: the
\* dashboards hold ScenarioCosts and have the lower end of each range selected
\* (annual repairs 20000, depreciation 80000); car_analyze_2 has no inputs and
\* starts from its literals as always.
ScenarioInit ==
    /\ script \in Scripts
    /\ events = 0
    /\ granularity = GranularityDefault
    /\ jag_min = JagDefaultMin
    /\ jag_max = JagDefaultMax
    /\ tesla_min = TeslaDefaultMin
    /\ tesla_max = TeslaDefaultMax
    /\ costs = IF script \in Dashboards THEN ScenarioCosts ELSE ClickConstants
    /\ selected_tesla_dep = IF script \in Dashboards THEN tesla_min ELSE 0
    /\ selected_jaguar_rep = IF script \in Dashboards THEN jag_min ELSE 0
    /\ ShownInit(IF script \in Dashboards
                 THEN RunDashboard(script, granularity, jag_min, jag_max, tesla_min,
                                   tesla_max, costs, selected_tesla_dep,
                                   selected_jaguar_rep)
                 ELSE RunClickScript(script, granularity, jag_min, jag_max, tesla_min,
                                     tesla_max, costs))
    /\ analysis = NoAnalysis
    /\ click = NoClick

ScenarioSpec == ScenarioInit /\ [][Next]_vars

\* ------------------------------------------------------- shared definitions

Cells == (1..granularity) \X (1..granularity)

FixedComponentKeys == FixedCostKeys \ {"jag_purchase", "tesla_purchase"}

\* jaguar_total - tesla_total for the grid point (i, j), before any rounding,
\* written out from the inputs.
UnroundedDifference(i, j) ==
    (Fx(costs.jag_depreciation + costs.jag_interest + costs.jag_insurance
        + costs.jag_charging) + 3 * jag_repairs[j])
    - (Fx(costs.tesla_insurance + costs.tesla_charging + costs.tesla_refinancing
          + costs.tesla_repairs) + tesla_depreciations[i])

\* v is a multiple of 10 nearest to d, the even multiple when d lies half way.
NearestTen(v, d) ==
    /\ v % (10 * Scale) = 0
    /\ 2 * Abs(v - d) <= 10 * Scale
    /\ (2 * Abs(v - d) = 10 * Scale => (v \div (10 * Scale)) % 2 = 0)

\* ---------------------------------------------------------------------- C1

\* C1 (as claimed): in every script, every matrix cell equals exactly the
\* unrounded difference computeTotal(B, cols[j]) - computeTotal(A, rows[i]).
C1_CellIsUnroundedDifference ==
    \A c \in Cells : matrix[c[1]][c[2]] = UnroundedDifference(c[1], c[2])

\* C1 (amended): in car_analyze_2 every cell equals exactly the unrounded
\* difference; in the two dashboards every cell equals that difference rounded
\* to the nearest multiple of 10 (ties to the even multiple).
C1_CellIsDifferenceRoundedInDashboards ==
    \A c \in Cells :
        IF script = "car_analyze_2"
        THEN matrix[c[1]][c[2]] = UnroundedDifference(c[1], c[2])
        ELSE NearestTen(matrix[c[1]][c[2]], UnroundedDifference(c[1], c[2]))

\* A dashboard was rerun and shows a cell that the rounding changed.
C1_Witness ==
    /\ script \in Dashboards
    /\ events > 0
    /\ \E c \in Cells : matrix[c[1]][c[2]] # UnroundedDifference(c[1], c[2])

\* ---------------------------------------------------------------------- C2

NonNegativeComponents == \A k \in FixedComponentKeys : costs[k] >= 0

\* C2: with non-negative fixed components, each total is the sum of the
\* vehicle's fixed components plus its multiplier times the swept value
\* (3 for the Jaguar's annual repairs, 1 for the Tesla's depreciation), in the
\* detailed analysis and in the matrix alike: where the selected scenario is
\* a grid point, the cell is the difference of the two detailed totals (rounded
\* to the nearest 10 in the dashboards).
C2_TotalsAreLinear ==
    NonNegativeComponents =>
        /\ script \in Dashboards =>
            /\ tesla_total = (costs.tesla_insurance + costs.tesla_charging
                              + costs.tesla_refinancing + costs.tesla_repairs)
                             + 1 * selected_tesla_dep
            /\ jaguar_total = (costs.jag_depreciation + costs.jag_interest
                               + costs.jag_insurance + costs.jag_charging)
                              + 3 * selected_jaguar_rep
            /\ \A c \in Cells :
                   (/\ tesla_depreciations[c[1]] = Fx(selected_tesla_dep)
                    /\ jag_repairs[c[2]] = Fx(selected_jaguar_rep))
                   => NearestTen(matrix[c[1]][c[2]], Fx(jaguar_total - tesla_total))
        /\ (script = "car_analyze_2" /\ analysis.open) =>
            /\ analysis.tesla_total =
                   Fx(costs.tesla_insurance + costs.tesla_charging
                      + costs.tesla_refinancing + costs.tesla_repairs)
                   + 1 * analysis.tesla_depreciation
            /\ analysis.jaguar_total =
                   Fx(costs.jag_depreciation + costs.jag_interest
                      + costs.jag_insurance + costs.jag_charging)
                   + 3 * analysis.jaguar_repair
            /\ \A c \in Cells :
                   (/\ tesla_depreciations[c[1]] = analysis.tesla_depreciation
                    /\ jag_repairs[c[2]] = analysis.jaguar_repair)
                   => matrix[c[1]][c[2]] = analysis.jaguar_total - analysis.tesla_total

\* A dashboard in which a scenario was entered that is a point of the grid.
C2_Witness ==
    /\ script \in Dashboards
    /\ NonNegativeComponents
    /\ selected_tesla_dep # DefaultSelected(tesla_depreciations)
    /\ \E c \in Cells :
           /\ tesla_depreciations[c[1]] = Fx(selected_tesla_dep)
           /\ jag_repairs[c[2]] = Fx(selected_jaguar_rep)

\* ---------------------------------------------------------------------- C3

\* C3 (as claimed): a breakdown for a vehicle whose total is 0 fails with
\* DivisionUndefined.
C3_ZeroTotalFailsWithDivisionUndefined ==
    (script \in Dashboards /\ (tesla_total = 0 \/ jaguar_total = 0))
        => error = "DivisionUndefined"

\* ---------------------------------------------------------------------- C4

\* C4 (as claimed): with a negative fixed component the run fails with
\* InvalidParameter and produces no matrix, total or difference.
C4_NegativeComponentFailsWithInvalidParameter ==
    (script \in Dashboards /\ ~NonNegativeComponents)
        => /\ error = "InvalidParameter"
           /\ matrix = <<>>

\* ---------------------------------------------------------------------- C5

\* C5 (as claimed): a range with min >= max on either axis fails with
\* InvalidParameter and produces no grid.
C5_DegenerateRangeFailsWithInvalidParameter ==
    (jag_min >= jag_max \/ tesla_min >= tesla_max)
        => /\ error = "InvalidParameter"
           /\ matrix = <<>>

\* ---------------------------------------------------------------------- C6

ProperRanges == jag_min < jag_max /\ tesla_min < tesla_max

\* C7: for min < max on both axes, each axis has exactly granularity points,
\* starts at the range's min and ends at its max; the matrix has granularity
\* rows and granularity columns and every cell holds the value the loops
\* assign for it (within the rounding of the dashboards), not the zero of the
\* allocation.
C7_AxesAndMatrixComplete ==
    ProperRanges =>
        /\ DOMAIN jag_repairs = 1..granularity
        /\ DOMAIN tesla_depreciations = 1..granularity
        /\ jag_repairs[1] = Fx(jag_min)
        /\ jag_repairs[granularity] = Fx(jag_max)
        /\ tesla_depreciations[1] = Fx(tesla_min)
        /\ tesla_depreciations[granularity] = Fx(tesla_max)
        /\ DOMAIN matrix = 1..granularity
        /\ \A i \in 1..granularity : DOMAIN matrix[i] = 1..granularity
        /\ \A c \in Cells :
               2 * Abs(matrix[c[1]][c[2]] - UnroundedDifference(c[1], c[2])) <= 10 * Scale

\* A grid rebuilt with another granularity in which no cell's value is near 0,
\* so that an unassigned cell would show.
C7_Witness ==
    /\ ProperRanges
    /\ events > 0
    /\ granularity # GranularityDefault
    /\ \A c \in Cells : Abs(UnroundedDifference(c[1], c[2])) > 10 * Scale

\* ---------------------------------------------------------------------- C8

\* The points of an axis are min + k * (max - min) / (granularity - 1).
EvenlySpaced(axis, lo, hi) ==
    /\ \A k \in 1..granularity :
           (granularity - 1) * (axis[k] - Fx(lo)) = (k - 1) * (Fx(hi) - Fx(lo))
    /\ \A k \in 2..(granularity - 1) :
           axis[k + 1] - axis[k] = axis[k] - axis[k - 1]
    /\ lo < hi => \A k \in 1..(granularity - 1) : axis[k] < axis[k + 1]

\* C8: each axis is sampled at point_k = min + k * (max - min) / (granularity
\* - 1), k = 0..granularity-1: consecutive points differ by the same step and
\* increase strictly when min < max; for min = 20000, max = 80000 and
\* granularity = 6 the points are 20000, 32000, 44000, 56000, 68000, 80000.
C8_AxesEvenlySpaced ==
    /\ EvenlySpaced(jag_repairs, jag_min, jag_max)
    /\ EvenlySpaced(tesla_depreciations, tesla_min, tesla_max)
    /\ (jag_min = 20000 /\ jag_max = 80000 /\ granularity = 6) =>
           jag_repairs = <<Fx(20000), Fx(32000), Fx(44000), Fx(56000), Fx(68000),
                           Fx(80000)>>

\* A dashboard axis resampled over a proper range with a step that is no whole
\* number of kr.
C8_Witness ==
    /\ script \in Dashboards
    /\ events > 0
    /\ tesla_min < tesla_max
    /\ (tesla_depreciations[2] - tesla_depreciations[1]) % Scale # 0

\* ---------------------------------------------------------------------- C9

\* The grid with the two vehicles exchanged: the Jaguar's repairs on the rows,
\* the Tesla's depreciation on the columns, built by the same loops.
SwappedMatrix ==
    FillMatrix(JaguarFixed(costs), JaguarRepairYears, jag_repairs,
               TeslaFixed(costs), 1, tesla_depreciations, granularity,
               RoundsCells(script))

\* C9: building the grid with the two vehicles exchanged and transposing it
\* negates every cell of the original grid.
C9_GridAntisymmetric ==
    \A c \in Cells : SwappedMatrix[c[2]][c[1]] = -matrix[c[1]][c[2]]

\* A dashboard grid with a non-zero cell whose unrounded value lies half way
\* between two multiples of 10.
C9_Witness ==
    /\ script \in Dashboards
    /\ \E c \in Cells :
           /\ matrix[c[1]][c[2]] # 0
           /\ UnroundedDifference(c[1], c[2]) % (10 * Scale) = 5 * Scale

\* --------------------------------------------------------------------- C10

\* The displayed one-decimal percentages of a rendered table, in tenths of a
\* percent, add up to 100% within `tolerance` tenths.
DisplayedSumWithin(table, tolerance) ==
    table.rendered => Abs(SumSeq(table.percentage) - 1000) <= tolerance

\* Every displayed percentage of a rendered table is cost / total * 100 of the
\* given total, to one decimal; and the costs listed add up to that total.
ComputedAgainst(table, total) ==
    table.rendered =>
        /\ total # 0
        /\ \A k \in 1..Len(table.cost) :
               2 * Abs(1000 * table.cost[k] - table.percentage[k] * total) <= Abs(total)
        /\ SumSeq(table.cost) = total

\* C10 (as claimed): the breakdown percentages of each vehicle sum to 100%
\* within a tolerance of 0.1.
C10_PercentagesSumWithinOneTenth ==
    /\ DisplayedSumWithin(tesla_breakdown, 1)
    /\ DisplayedSumWithin(jaguar_breakdown, 1)

\* C10 (amended): the breakdown percentages of each vehicle (swept category
\* included, purchase price excluded) are computed against that vehicle's own
\* total, whose categories add up to it, so that unformatted they sum to
\* 100%; the one-decimal values the tables display sum to 100% within 0.2.
C10_PercentagesOfOwnTotal ==
    /\ ComputedAgainst(tesla_breakdown, tesla_total)
    /\ ComputedAgainst(jaguar_breakdown, jaguar_total)
    /\ DisplayedSumWithin(tesla_breakdown, 2)
    /\ DisplayedSumWithin(jaguar_breakdown, 2)
    /\ tesla_pie.rendered =>
           \A k \in 1..Len(tesla_pie.percentage) :
               tesla_pie.percentage[k] = [num |-> 100 * tesla_pie.cost[k], den |-> tesla_total]
    /\ jaguar_pie.rendered =>
           \A k \in 1..Len(jaguar_pie.percentage) :
               jaguar_pie.percentage[k] = [num |-> 100 * jaguar_pie.cost[k], den |-> jaguar_total]

\* Both tables rendered after a rerun, one of them with displayed percentages
\* that add up to 99.8% or 100.2%.
C10_Witness ==
    /\ events > 0
    /\ tesla_breakdown.rendered
    /\ jaguar_breakdown.rendered
    /\ \/ Abs(SumSeq(tesla_breakdown.percentage) - 1000) = 2
       \/ Abs(SumSeq(jaguar_breakdown.percentage) - 1000) = 2

\* --------------------------------------------------------------------- C11

\* The documented scenario is on the page: profile A is the Jaguar (fixed
\* Insurance 36000, Interest 33000, Charging 8000, repairs counted 3 times,
\* annual repairs 20000), profile B is the Tesla (fixed Insurance 30000,
\* Charging 6000, Refinancing 2150, Repairs 15000, depreciation 80000).
ScenarioEntered ==
    /\ script \in Dashboards
    /\ costs.jag_depreciation = 0
    /\ costs.jag_insurance = 36000
    /\ costs.jag_interest = 33000
    /\ costs.jag_charging = 8000
    /\ costs.tesla_insurance = 30000
    /\ costs.tesla_charging = 6000
    /\ costs.tesla_refinancing = 2150
    /\ costs.tesla_repairs = 15000
    /\ selected_jaguar_rep = 20000
    /\ selected_tesla_dep = 80000

\* The cells of the grid that belong to the scenario: depreciation 80000 on
\* the row, annual repairs 20000 on the column.
ScenarioCells ==
    {c \in Cells : tesla_depreciations[c[1]] = Fx(80000) /\ jag_repairs[c[2]] = Fx(20000)}

\* C11 (as claimed): with the documented profiles the totals are 137000 (A) and
\* 133150 (B) and the grid cell for that scenario is B - A = -3850.
C11_ScenarioCellIsBMinusA ==
    ScenarioEntered =>
        /\ jaguar_total = 137000
        /\ tesla_total = 133150
        /\ \A c \in ScenarioCells : matrix[c[1]][c[2]] = Fx(-3850)

\* C11 (amended): with the documented profiles the totals are 137000 (A, the
\* Jaguar) and 133150 (B, the Tesla); the difference shown and the grid cell
\* for that scenario are Jaguar minus Tesla, A - B = +3850.  car_analyze_2
\* itself also counts Depreciation 100000 for the Jaguar, so its cell for
\* depreciation 80000 and repairs 20000 is 237000 - 133150 = 103850.
C11_ScenarioCellIsJaguarMinusTesla ==
    /\ ScenarioEntered =>
        /\ jaguar_total = 137000
        /\ tesla_total = 133150
        /\ difference = 3850
        /\ \A c \in ScenarioCells : matrix[c[1]][c[2]] = Fx(3850)
    /\ script = "car_analyze_2" => matrix[1][1] = Fx(237000 - 133150)

\* A dashboard that was rerun with the scenario entered and shows its cell.
C11_Witness ==
    /\ ScenarioEntered
    /\ events > 0
    /\ ScenarioCells # {}
    /\ error = "none"

\* --------------------------------------------------------------------- C12

\* The categories a breakdown lists are the current inputs of its vehicle.
CurrentTeslaCosts ==
    <<selected_tesla_dep, costs.tesla_insurance, costs.tesla_charging,
      costs.tesla_refinancing, costs.tesla_repairs>>

CurrentJaguarCosts ==
    <<costs.jag_depreciation, costs.jag_interest, costs.jag_insurance,
      costs.jag_charging, 3 * selected_jaguar_rep>>

\* What a dashboard displays of a breakdown or pie is computed from the given
\* current costs.
FromCurrent(shown, current) == shown.rendered => shown.cost = current

\* C12: after any sequence of parameter changes in a dashboard, everything
\* displayed is computed from the current parameter values: both axes from the
\* current ranges and granularity, every matrix cell from the current axes and
\* fixed costs, both totals from the current fixed costs and selected
\* scenario, the difference and the winner from those totals, and every
\* breakdown and pie that is rendered from the current costs and totals.
C12_DisplayedValuesAreCurrent ==
    script \in Dashboards =>
        /\ Len(jag_repairs) = granularity
        /\ Len(tesla_depreciations) = granularity
        /\ EvenlySpaced(jag_repairs, jag_min, jag_max)
        /\ EvenlySpaced(tesla_depreciations, tesla_min, tesla_max)
        /\ Len(matrix) = granularity
        /\ \A c \in Cells : NearestTen(matrix[c[1]][c[2]], UnroundedDifference(c[1], c[2]))
        /\ tesla_total = SumSeq(CurrentTeslaCosts)
        /\ jaguar_total = SumSeq(CurrentJaguarCosts)
        /\ difference = jaguar_total - tesla_total
        /\ winner = (IF difference > 0 THEN "Tesla" ELSE "Jaguar")
        /\ FromCurrent(tesla_breakdown, CurrentTeslaCosts)
        /\ FromCurrent(jaguar_breakdown, CurrentJaguarCosts)
        /\ FromCurrent(tesla_pie, CurrentTeslaCosts)
        /\ FromCurrent(jaguar_pie, CurrentJaguarCosts)
        /\ ComputedAgainst(tesla_breakdown, tesla_total)
        /\ ComputedAgainst(jaguar_breakdown, jaguar_total)

\* A dashboard after two parameter changes of different kinds: a fixed cost
\* differs from its default, the scenario is not the default one either, and
\* the whole page is rendered.
C12_Witness ==
    /\ script \in Dashboards
    /\ events >= 2
    /\ costs # DashboardDefaults
    /\ \/ selected_tesla_dep # DefaultSelected(tesla_depreciations)
       \/ selected_jaguar_rep # DefaultSelected(jag_repairs)
    /\ jaguar_pie.rendered

\* --------------------------------------------------------------------- C14

\* C14: in car_analyze_2 no step (no click, whether or not it opens a
\* detailed analysis) changes the matrix, either axis array, the fixed-cost
\* constants, the two ranges or the granularity: on_click and
\* show_detailed_analysis only read them.
C14_ClicksLeaveGridUnchanged ==
    [][script = "car_analyze_2" =>
          UNCHANGED <<matrix, jag_repairs, tesla_depreciations, costs, granularity,
                      jag_min, jag_max, tesla_min, tesla_max>>]_vars

\* car_analyze_2 after a sequence of clicks, the last of which opened a
\* detailed analysis.
C14_Witness ==
    /\ script = "car_analyze_2"
    /\ events >= 2
    /\ analysis.open

\* --------------------------------------------------------------------- C15

\* The cells whose grid point is the scenario (td, jr) of a detailed analysis.
CellsOfScenario(td, jr) ==
    {c \in Cells : tesla_depreciations[c[1]] = td /\ jag_repairs[c[2]] = jr}

\* C15 (as claimed): for the same scenario the heatmap and the detailed
\* analysis name the same vehicle as cheaper: whenever the scenario analysed
\* is the grid point of a cell (i, j), the winner label of that cell names
\* the vehicle the detailed analysis names - also when the totals are equal
\* or differ by less than the rounding step of the matrix.  (Stated for
\* non-negative fixed costs; car_analyze_streamlit's heatmap has no labels.)
C15_HeatmapAndAnalysisAgree ==
    /\ (script = "car_analyze_altair" /\ NonNegativeComponents) =>
           \A c \in CellsOfScenario(Fx(selected_tesla_dep), Fx(selected_jaguar_rep)) :
               (IF matrix[c[1]][c[2]] > 0 THEN "Tesla" ELSE "Jaguar") = winner
    /\ (script = "car_analyze_2" /\ analysis.open) =>
           \A c \in CellsOfScenario(analysis.tesla_depreciation, analysis.jaguar_repair) :
               (IF matrix[c[1]][c[2]] < 0 THEN "Jaguar" ELSE "Tesla") = analysis.winner

\* --------------------------------------------------------------------- C16

\* The last click resolved to a cell of the heatmap.
ClickInGrid ==
    /\ click.inaxes
    /\ 0 <= click.y /\ click.y < granularity
    /\ 0 <= click.x /\ click.x < granularity

\* C16: in car_analyze_2 a click that resolves to cell (y, x) opens the
\* detailed analysis for exactly tesla_depreciations[y] and jag_repairs[x],
\* and the difference the analysis computes equals matrix[y, x].
C16_ClickOpensItsCell ==
    (script = "car_analyze_2" /\ ClickInGrid) =>
        /\ analysis.open
        /\ analysis.tesla_depreciation = tesla_depreciations[click.y + 1]
        /\ analysis.jaguar_repair = jag_repairs[click.x + 1]
        /\ analysis.difference = matrix[click.y + 1][click.x + 1]
        /\ analysis.difference = analysis.jaguar_total - analysis.tesla_total

\* A click resolved to a cell off the diagonal, after an earlier click had
\* opened the analysis of another cell.
C16_Witness ==
    /\ script = "car_analyze_2"
    /\ events >= 2
    /\ ClickInGrid
    /\ click.y # click.x
    /\ analysis.open
    /\ analysis.difference = matrix[click.y + 1][click.x + 1]

\* --------------------------------------------------------------------- C17

\* C17: on_click opens a detailed analysis only when the event lies in the
\* heatmap axes and the truncated coordinates satisfy 0 <= y < granularity
\* and 0 <= x < granularity, and then it opens the analysis of the cell
\* (y, x); for every other click it changes nothing.  It never indexes the
\* arrays outside 0..granularity-1.
C17_ClickGuarded ==
    [][script = "car_analyze_2" =>
          IF click'.inaxes /\ 0 <= click'.y /\ click'.y < granularity
                           /\ 0 <= click'.x /\ click'.x < granularity
          THEN /\ click'.y + 1 \in DOMAIN tesla_depreciations
               /\ click'.x + 1 \in DOMAIN jag_repairs
               /\ analysis'.open
               /\ analysis'.tesla_depreciation = tesla_depreciations[click'.y + 1]
               /\ analysis'.jaguar_repair = jag_repairs[click'.x + 1]
          ELSE /\ analysis' = analysis
               /\ UNCHANGED <<params, selection, outputs>>]_vars

\* A click inside the axes whose truncated row index is out of range was
\* ignored while an analysis opened earlier stays as it was.
C17_Witness ==
    /\ script = "car_analyze_2"
    /\ events >= 2
    /\ click.inaxes
    /\ (click.y < 0 \/ click.y >= granularity)
    /\ analysis.open

\* --------------------------------------------------------------------- C18

\* A step between two settings of a dashboard that differ in nothing but the
\* purchase prices.
OnlyPurchasePriceChanged ==
    /\ script \in Dashboards
    /\ costs' # costs
    /\ \A k \in FixedComponentKeys : costs'[k] = costs[k]
    /\ granularity' = granularity
    /\ <<jag_min', jag_max', tesla_min', tesla_max'>> = <<jag_min, jag_max, tesla_min, tesla_max>>
    /\ selection' = selection

\* C18: the purchase price does not influence the comparison: two settings
\* that differ only in jag_purchase and/or tesla_purchase show identical axes,
\* matrix cells, totals, difference, winner, breakdown tables and pies with
\* their percentages, display totals, and the same error if any.
C18_PurchasePriceHasNoInfluence ==
    [][OnlyPurchasePriceChanged => UNCHANGED outputs]_vars

\* A dashboard whose two purchase prices both differ from the default while
\* every other fixed cost is at its default.
C18_Witness ==
    /\ script \in Dashboards
    /\ costs.jag_purchase # DashboardDefaults.jag_purchase
    /\ costs.tesla_purchase # DashboardDefaults.tesla_purchase
    /\ \A k \in FixedComponentKeys : costs[k] = DashboardDefaults[k]
    /\ jaguar_pie.rendered

\* --------------------------------------------------------------------- C19

\* C19: in both dashboards tesla_display_total equals tesla_total and
\* jaguar_display_total equals jaguar_total wherever the script got as far as
\* computing them (the Tesla's after both tables, the Jaguar's after the
\* Tesla's pie), and both equal the sum of the amounts the vehicle's
\* breakdown lists, the purchase price excluded.
C19_DisplayTotalsEqualTotals ==
    script \in Dashboards =>
        /\ jaguar_breakdown.rendered =>
               /\ tesla_display_total = tesla_total
               /\ tesla_total = SumSeq(tesla_breakdown.cost)
               /\ tesla_breakdown.cost = CurrentTeslaCosts
        /\ tesla_pie.rendered =>
               /\ tesla_display_total = SumSeq(tesla_pie.cost)
               /\ jaguar_display_total = jaguar_total
               /\ jaguar_total = SumSeq(jaguar_breakdown.cost)
               /\ jaguar_breakdown.cost = CurrentJaguarCosts
        /\ jaguar_pie.rendered =>
               jaguar_display_total = SumSeq(jaguar_pie.cost)

\* A dashboard rerun with a changed fixed cost and a scenario other than the
\* default one, the page rendered down to the Jaguar's pie.
C19_Witness ==
    /\ script \in Dashboards
    /\ events >= 2
    /\ \E k \in FixedComponentKeys : costs[k] # DashboardDefaults[k]
    /\ selected_tesla_dep # DefaultSelected(tesla_depreciations)
    /\ jaguar_pie.rendered
    /\ tesla_display_total = tesla_total
    /\ jaguar_display_total = jaguar_total

\* --------------------------------------------------------------------- C20

\* Index pairs of horizontally and of vertically adjacent cells.
RowNeighbours == (1..granularity) \X (1..(granularity - 1))

ColumnNeighbours == (1..(granularity - 1)) \X (1..granularity)

\* C20: for min < max on both axes the matrix is monotone: within a row the
\* cell never decreases as the column index (Jaguar repairs) increases, and
\* within a column it never increases as the row index (Tesla depreciation)
\* increases.  Where the cells are not rounded (car_analyze_2) both are strict
\* with a constant step: 3 * (jag_max - jag_min) / (granularity - 1) up along
\* a row and (tesla_max - tesla_min) / (granularity - 1) down along a column;
\* where they are rounded, each step is within 10 of that amount.
C20_MatrixMonotone ==
    ProperRanges =>
        /\ \A c \in RowNeighbours :
               LET step == matrix[c[1]][c[2] + 1] - matrix[c[1]][c[2]]
                   exact == 3 * (Fx(jag_max) - Fx(jag_min))
               IN  /\ step >= 0
                   /\ IF script = "car_analyze_2"
                      THEN step > 0 /\ (granularity - 1) * step = exact
                      ELSE Abs((granularity - 1) * step - exact)
                               <= (granularity - 1) * 10 * Scale
        /\ \A c \in ColumnNeighbours :
               LET step == matrix[c[1]][c[2]] - matrix[c[1] + 1][c[2]]
                   exact == Fx(tesla_max) - Fx(tesla_min)
               IN  /\ step >= 0
                   /\ IF script = "car_analyze_2"
                      THEN step > 0 /\ (granularity - 1) * step = exact
                      ELSE Abs((granularity - 1) * step - exact)
                               <= (granularity - 1) * 10 * Scale

\* A dashboard rerun over proper ranges whose rounded steps along a row are
\* not all the same.
C20_Witness ==
    /\ script \in Dashboards
    /\ events > 0
    /\ ProperRanges
    /\ \E c \in RowNeighbours : \E d \in RowNeighbours :
           matrix[c[1]][c[2] + 1] - matrix[c[1]][c[2]]
               # matrix[d[1]][d[2] + 1] - matrix[d[1]][d[2]]

====
